---- MODULE Spec2Model ----
(***************************************************************************)
(* Model of VcfFromAnnotsv (variantconvert, converters/vcf_from_annotsv.py):*)
(* the conversion of an AnnotSV full/split annotation table into a VCF.    *)
(*                                                                         *)
(* A string is a sequence of symbols.  Every character the code inspects   *)
(* (';' ',' '|' '.' '=' '&' and the digits) is a symbol of its own; a run  *)
(* of letters that the code never looks into ("full", "chr", "Gene") is a  *)
(* single symbol.  A column name is a string, a row maps column names to   *)
(* strings, and a dataframe is an ordered list of columns plus an ordered  *)
(* list of rows, each row carrying its index label.                        *)
(***************************************************************************)
EXTENDS Integers, Sequences, FiniteSets, TLC

\* Largest number of rows of an input table under the standard configuration.
MaxRows == 3
\* Largest number of rows of an input table under the other configurations.
MaxCfgRows == 1

----------------------------------------------------------------------------
(* Strings *)

Digits == <<"0", "1", "2", "3", "4", "5", "6", "7", "8", "9">>

\* The symbols of the model, in the order Python compares str values.
Alphabet ==
  <<"&", ",", ".", "/">> \o Digits \o
  <<";", "=", "ALT", "AnnotSV_ID", "Annotation_mode", "DEL", "FILTER", "FMT",
    "FORMAT", "GT", "Gene", "ID", "INFO", "PASS", "POS", "QUAL", "REF", "S1",
    "S2", "SV_chrom", "SV_start", "SV_type", "Samples_ID", "a", "b", "chr",
    "full", "g", "split", "x", "|">>

Rank(c) == CHOOSE i \in 1..Len(Alphabet) : Alphabet[i] = c

IsDigit(c) == \E i \in 1..Len(Digits) : Digits[i] = c

DigitVal(c) == (CHOOSE i \in 1..Len(Digits) : Digits[i] = c) - 1

RECURSIVE StrLess(_, _)
\* Python's order of two str values: lexicographic, a proper prefix is smaller.
StrLess(a, b) ==
  IF b = <<>> THEN FALSE
  ELSE IF a = <<>> THEN TRUE
  ELSE IF Head(a) # Head(b) THEN Rank(Head(a)) < Rank(Head(b))
  ELSE StrLess(Tail(a), Tail(b))

RECURSIVE ToInt(_, _)
\* int() of a run of digits, most significant first; acc is the value so far.
ToInt(s, acc) ==
  IF s = <<>> THEN acc ELSE ToInt(Tail(s), 10 * acc + DigitVal(Head(s)))

\* str.replace of one symbol by another.
Replace(s, old, new) ==
  [i \in 1..Len(s) |-> IF s[i] = old THEN new ELSE s[i]]

\* str.split(sep) of cur + s: the pieces between the separators of s, the
\* first one after cur.  "a,b" -> <<"a", "b">>, "" -> <<"">>.
SplitOn(s, sep, cur) ==
  LET seps == {i \in 1..Len(s) : s[i] = sep}
      n == Cardinality(seps)
      at(k) == IF k = 0 THEN 0
               ELSE IF k = n + 1 THEN Len(s) + 1
               ELSE CHOOSE i \in seps : Cardinality({j \in seps : j <= i}) = k
  IN [k \in 1..(n + 1) |->
        (IF k = 1 THEN cur ELSE <<>>) \o SubSeq(s, at(k - 1) + 1, at(k) - 1)]

RECURSIVE Join(_, _)
\* sep.join(parts)
Join(parts, sep) ==
  IF parts = <<>> THEN <<>>
  ELSE IF Len(parts) = 1 THEN parts[1]
  ELSE parts[1] \o sep \o Join(Tail(parts), sep)

Contains(s, c) == \E i \in 1..Len(s) : s[i] = c

SeqToSet(s) == {s[i] : i \in 1..Len(s)}

\* A stable sort of s, less[i, j] telling whether s[i] is smaller than s[j] in
\* a strict weak order: the element at position i goes after every element
\* smaller than it and every equal element before it.
StableSort(s, less) ==
  LET n == Len(s)
      pos(i) == 1 + Cardinality({j \in 1..n :
                       less[j, i] \/ (~less[i, j] /\ j < i)})
  IN [k \in 1..n |-> s[CHOOSE i \in 1..n : pos(i) = k]]

\* The sorted list of a list of strings.
SortStrings(s) == StableSort(s, [i, j \in 1..Len(s) |-> StrLess(s[i], s[j])])

\* The distinct values of s in the order of their first occurrence.
RECURSIVE Unique(_, _)
Unique(s, seen) ==
  IF s = <<>> THEN <<>>
  ELSE IF Head(s) \in seen THEN Unique(Tail(s), seen)
  ELSE <<Head(s)>> \o Unique(Tail(s), seen \cup {Head(s)})

----------------------------------------------------------------------------
(* natsort: the key index_natsorted compares, and its order *)

RECURSIVE Runs(_, _)
\* The maximal runs of digits and of non-digits of s, in order.
Runs(s, acc) ==
  IF s = <<>> THEN acc
  ELSE IF acc # <<>> /\ (IsDigit(acc[Len(acc)][1]) <=> IsDigit(Head(s)))
       THEN Runs(Tail(s), [acc EXCEPT ![Len(acc)] = Append(@, Head(s))])
       ELSE Runs(Tail(s), Append(acc, <<Head(s)>>))

Token(run) ==
  IF IsDigit(run[1]) THEN [num |-> TRUE, n |-> ToInt(run, 0), s |-> <<>>]
  ELSE [num |-> FALSE, n |-> 0, s |-> run]

\* natsort's default key: text and unsigned integers alternate, and a key
\* that would start with a number starts with the empty text instead.
NatKey(s) ==
  LET runs == Runs(s, <<>>)
      toks == [i \in 1..Len(runs) |-> Token(runs[i])]
  IN IF toks # <<>> /\ toks[1].num
     THEN <<[num |-> FALSE, n |-> 0, s |-> <<>>]>> \o toks
     ELSE toks

TokLess(a, b) ==
  IF a.num /\ b.num THEN a.n < b.n
  ELSE IF ~a.num /\ ~b.num THEN StrLess(a.s, b.s)
  ELSE a.num

RECURSIVE KeyLess(_, _)
\* Python's tuple order on two natsort keys.
KeyLess(k1, k2) ==
  IF k2 = <<>> THEN FALSE
  ELSE IF k1 = <<>> THEN TRUE
  ELSE IF Head(k1) # Head(k2) THEN TokLess(Head(k1), Head(k2))
  ELSE KeyLess(Tail(k1), Tail(k2))

NatLess(a, b) == KeyLess(NatKey(a), NatKey(b))

----------------------------------------------------------------------------
(* commons.remove_decimal_or_strip *)

AllIn(s, set) == \A i \in 1..Len(s) : s[i] \in set

\* A value that reads as a float with a zero fraction ("1.0") loses the
\* fraction; any other value is returned as it is.
remove_decimal_or_strip(value) ==
  LET parts == SplitOn(value, ".", <<>>)
  IN IF /\ Len(parts) = 2
        /\ parts[1] # <<>> /\ AllIn(parts[1], SeqToSet(Digits))
        /\ parts[2] # <<>> /\ AllIn(parts[2], {"0"})
     THEN parts[1]
     ELSE value

----------------------------------------------------------------------------
(* Dataframes *)

HasColumn(df, col) == col \in SeqToSet(df.columns)

\* df[col] = value for every row: a new column goes last, an old one is
\* overwritten in place.
SetColumn(df, col, value) ==
  [columns |-> IF HasColumn(df, col) THEN df.columns ELSE Append(df.columns, col),
   rows |-> [i \in 1..Len(df.rows) |->
              [idx |-> df.rows[i].idx,
               cells |-> [c \in DOMAIN df.rows[i].cells \cup {col} |->
                           IF c = col THEN value ELSE df.rows[i].cells[c]]]]]

\* df.loc[:, keep]: the listed columns only, rows and labels as they are.
KeepColumns(df, keep) ==
  [columns |-> keep,
   rows |-> [i \in 1..Len(df.rows) |->
              [idx |-> df.rows[i].idx,
               cells |-> [c \in SeqToSet(keep) |-> df.rows[i].cells[c]]]]]

\* The rows of df whose cell in col is key, in the order of df, as a dataframe.
RowsWith(df, col, key) ==
  [columns |-> df.columns,
   rows |-> SelectSeq(df.rows, LAMBDA r : r.cells[col] = key)]

\* df[col].tolist()
ColumnValues(df, col) == [i \in 1..Len(df.rows) |-> df.rows[i].cells[col]]

\* The keys df.groupby(col) iterates over: the distinct values, sorted.
GroupKeysSorted(df, col) == SortStrings(Unique(ColumnValues(df, col), {}))

\* The keys df.groupby(col, sort=False) iterates over: first occurrence order.
GroupKeysUnsorted(df, col) == Unique(ColumnValues(df, col), {})

----------------------------------------------------------------------------
(* Values and names the code and its configuration use *)

FULL == <<"full">>
SPLIT == <<"split">>
DOT == <<".">>
\* An empty cell of the input file (read_csv reads it as NaN).
NA == <<>>
\* config["GENERAL"]["mode"] of the only supported mode, "full&split"
FULL_AND_SPLIT == <<"full", "&", "split">>
\* The columns _merge_full_and_split keeps out of the INFO field.
BaseVcfCols == {<<"ID">>, <<"REF">>, <<"ALT">>, <<"QUAL">>, <<"FILTER">>}
\* The roles _get_main_vcf_cols walks through, in its order.
MainRoles == <<"#CHROM", "POS", "ID", "REF", "ALT", "QUAL", "FILTER">>

S1 == <<"S1">>
S2 == <<"S2">>

----------------------------------------------------------------------------
(* Inputs: the configuration and the input table *)

\* A configuration of the AnnotSV converter.  mode is GENERAL.mode, format
\* is VCF_COLUMNS.FORMAT ("" when unmapped), helpers is the set of INFO roles
\* whose value is a HELPER_FUNCTION descriptor, described is the set of INFO
\* keys COLUMNS_DESCRIPTION declares.
MakeConfig(mode, format, helpers, described) ==
  [GENERAL |-> [mode |-> mode, default_genotype |-> <<"0", "/", "1">>],
   VCF_COLUMNS |->
     [r \in {"#CHROM", "POS", "ID", "REF", "ALT", "QUAL", "FILTER", "SAMPLE", "FORMAT"} |->
        CASE r = "#CHROM" -> <<"SV_chrom">>
          [] r = "POS" -> <<"SV_start">>
          [] r = "SAMPLE" -> <<"Samples_ID">>
          [] r = "FORMAT" -> format
          [] OTHER -> <<>>],
   INFO |->
     [r \in {"INFO", "AnnotSV_ID", "Annotation_mode", "SV_type"} |->
        CASE r = "INFO" -> <<"INFO">>
          [] r = "AnnotSV_ID" -> <<"AnnotSV_ID">>
          [] r = "Annotation_mode" -> <<"Annotation_mode">>
          [] OTHER -> <<"SV_type">>],
   INFO_HELPERS |-> helpers,
   COLUMNS_DESCRIPTION |-> [INFO |-> described]]

StdConfig == MakeConfig(FULL_AND_SPLIT, <<"FORMAT">>, {}, {<<"Gene">>})

Configs ==
  {MakeConfig(m, f, h, {<<"Gene">>}) :
     m \in {FULL_AND_SPLIT, FULL},
     f \in {<<>>, <<"FORMAT">>, <<"FMT">>},
     h \in {{}, {"SVLEN"}}}

\* What the file holds besides the rows: which optional columns it has and
\* what every row says in its samples column.
StdSchema == [mode_col |-> TRUE, info_col |-> TRUE, svtype_col |-> TRUE, samples |-> S1]

Schemas ==
  [mode_col : BOOLEAN, info_col : BOOLEAN, svtype_col : BOOLEAN,
   samples : {S1, S1 \o <<",">> \o S2}]

\* The structural variants a row can belong to.
Variants ==
  {[chrom |-> <<"chr", "1", "0">>, pos |-> <<"5">>, id |-> <<"a">>],
   [chrom |-> <<"chr", "2">>, pos |-> <<"7">>, id |-> <<"b">>]}

\* A variant whose identifier holds a ';'.
SemicolonVariant == [chrom |-> <<"chr", "2">>, pos |-> <<"3">>, id |-> <<"b", ";">>]

\* What one row of the file says: its variant, its annotation mode (empty when
\* the cell is missing) and one annotation.
RowSpecs ==
  [variant : Variants, mode : {FULL, SPLIT, NA}, gene : {<<"g">>, <<"1", ".", "0">>}]

\* The rows whose annotation is a ';'-separated list, as AnnotSV writes the
\* genes a variant overlaps; all of one variant, each tagged full or split.
ListRowSpecs ==
  [variant : {v \in Variants : v.id = <<"a">>}, mode : {FULL, SPLIT},
   gene : {<<"g", ";", "x">>, <<";", "x", ";">>}]

\* The rows of the tables tried under every configuration.
CfgRowSpecs ==
  [variant : Variants \cup {SemicolonVariant}, mode : {FULL, SPLIT, NA}, gene : {<<"g">>}]


TableColumns(cfg, schema) ==
  <<<<"SV_chrom">>, <<"SV_start">>, <<"AnnotSV_ID">>>>
  \o (IF schema.mode_col THEN <<<<"Annotation_mode">>>> ELSE <<>>)
  \o (IF schema.svtype_col THEN <<<<"SV_type">>>> ELSE <<>>)
  \o <<<<"Gene">>, <<"Samples_ID">>>>
  \o (IF cfg.VCF_COLUMNS["FORMAT"] # <<>> THEN <<cfg.VCF_COLUMNS["FORMAT"]>> ELSE <<>>)
  \o <<S1>>
  \o (IF schema.info_col THEN <<<<"INFO">>>> ELSE <<>>)

RowCells(cfg, schema, spec) ==
  [c \in SeqToSet(TableColumns(cfg, schema)) |->
     CASE c = <<"SV_chrom">> -> spec.variant.chrom
       [] c = <<"SV_start">> -> spec.variant.pos
       [] c = <<"AnnotSV_ID">> -> spec.variant.id
       [] c = <<"Annotation_mode">> -> spec.mode
       [] c = <<"SV_type">> -> <<"DEL">>
       [] c = <<"Gene">> -> spec.gene
       [] c = <<"Samples_ID">> -> schema.samples
       [] c = S1 -> <<"0", "/", "1">>
       [] c = <<"INFO">> -> <<"x">>
       [] OTHER -> <<"GT">>]

\* The file as read_csv returns it: rows in file order, labelled 0, 1, ...
MakeTable(cfg, schema, specs) ==
  [columns |-> TableColumns(cfg, schema),
   rows |-> [i \in 1..Len(specs) |->
              [idx |-> i - 1, cells |-> RowCells(cfg, schema, specs[i])]]]

----------------------------------------------------------------------------
(* State *)

VARIABLES
  config,        \* self.config
  tsv,           \* the input file, as read_csv parses it
  pc,            \* where convert is: load, samples, maincols, annot, merge,
                 \* open, emit, done, error
  err,           \* the exception that ended convert, NoError until then
  input_df,      \* self.input_df
  sample_list,   \* self.sample_list
  main_vcf_cols, \* self.main_vcf_cols
  annot_df,      \* input_annot_df of _build_info_dic
  todo,          \* the groups the running groupby loop has yet to visit
  info_dic,      \* annots_dic / info_dic: group id -> merged annotation
  info_keys,     \* info_keys of convert
  vcf            \* the output file

vars == <<config, tsv, pc, err, input_df, sample_list, main_vcf_cols, annot_df,
          todo, info_dic, info_keys, vcf>>

NoError == [kind |-> "none", at |-> "none"]
EmptyDf == [columns |-> <<>>, rows |-> <<>>]
\* The output path before open(output_path, "w").
NoFile == [exists |-> FALSE, closed |-> FALSE, header |-> <<>>, lines |-> <<>>]
\* info_dic before any group is merged: the empty dict.
EmptyDic == [g \in {} |-> <<>>]

\* convert is called with a configuration and the path of a table: the
\* standard configuration with any table of up to MaxRows rows, with plain
\* annotations or with ';'-separated lists, or any configuration with any
\* table of up to MaxCfgRows rows.
Init ==
  /\ \/ \E k \in 0..MaxRows : \E r \in [1..k -> RowSpecs] :
          /\ config = StdConfig
          /\ tsv = MakeTable(StdConfig, StdSchema, r)
     \/ \E k \in 0..MaxRows : \E r \in [1..k -> ListRowSpecs] :
          /\ config = StdConfig
          /\ tsv = MakeTable(StdConfig, StdSchema, r)
     \/ \E c \in Configs, s \in Schemas :
          \E k \in 0..MaxCfgRows : \E r \in [1..k -> CfgRowSpecs] :
            /\ config = c
            /\ tsv = MakeTable(c, s, r)
    /\ pc = "load"
    /\ err = NoError
    /\ input_df = EmptyDf
    /\ sample_list = <<>>
    /\ main_vcf_cols = <<>>
    /\ annot_df = EmptyDf
    /\ todo = <<>>
    /\ info_dic = EmptyDic
    /\ info_keys = {}
    /\ vcf = NoFile

\* raise: convert ends with the exception; a file opened by the with
\* statement is closed with what was written so far.
Raise(kind) ==
  /\ err' = [kind |-> kind, at |-> pc]
  /\ pc' = "error"

----------------------------------------------------------------------------
(* _build_input_dataframe *)

\* The order of sort_values([#CHROM, POS]): the chromosome column holds
\* strings, the position column integers.
LoadLess(r1, r2) ==
  LET chrom == config.VCF_COLUMNS["#CHROM"]
      p == config.VCF_COLUMNS["POS"]
  IN \/ StrLess(r1.cells[chrom], r2.cells[chrom])
     \/ /\ r1.cells[chrom] = r2.cells[chrom]
        /\ ToInt(r1.cells[p], 0) < ToInt(r2.cells[p], 0)

\* df.fillna(".") of one cell
FillNaCell(value) == IF value = NA THEN DOT ELSE value

\* df.fillna("."); astype(str) leaves the strings as they are
FillNa(df) ==
  [columns |-> df.columns,
   rows |-> [i \in 1..Len(df.rows) |->
              [idx |-> df.rows[i].idx,
               cells |-> [c \in DOMAIN df.rows[i].cells |->
                           FillNaCell(df.rows[i].cells[c])]]]]

\* reset_index(drop=True): the labels become 0, 1, ... in the row order.
ResetIndex(df) ==
  [columns |-> df.columns,
   rows |-> [i \in 1..Len(df.rows) |-> [idx |-> i - 1, cells |-> df.rows[i].cells]]]

SortValues(df) ==
  [columns |-> df.columns,
   rows |-> StableSort(df.rows,
              [i, j \in 1..Len(df.rows) |-> LoadLess(df.rows[i], df.rows[j])])]

BuildInputDataframe ==
  /\ pc = "load"
  /\ input_df' = FillNa(ResetIndex(SortValues(tsv)))
  /\ pc' = "samples"
  /\ UNCHANGED <<config, tsv, err, sample_list, main_vcf_cols, annot_df, todo,
                 info_dic, info_keys, vcf>>

----------------------------------------------------------------------------
(* _get_sample_list *)

\* The names one cell of the samples column lists.
CellSamples(cell) ==
  IF Contains(cell, ",") THEN SeqToSet(SplitOn(cell, ",", <<>>)) ELSE {cell}

\* set(sample_list)
SampleSet(df) ==
  UNION {CellSamples(df.rows[i].cells[config.VCF_COLUMNS["SAMPLE"]]) :
           i \in 1..Len(df.rows)}

\* The test that guards the subset check.
SamplesAreChecked == config.VCF_COLUMNS["FORMAT"] = <<"FORMAT">>

Orderings(set) ==
  {s \in [1..Cardinality(set) -> set] : SeqToSet(s) = set}

\* list(set(...)) keeps no order: any order of the set may come out.
GetSampleList ==
  /\ pc = "samples"
  /\ IF SamplesAreChecked /\ ~(SampleSet(input_df) \subseteq SeqToSet(input_df.columns))
     THEN /\ Raise("SchemaMismatch")
          /\ UNCHANGED sample_list
     ELSE /\ \E order \in Orderings(SampleSet(input_df)) : sample_list' = order
          /\ pc' = "maincols"
          /\ UNCHANGED err
  /\ UNCHANGED <<config, tsv, input_df, main_vcf_cols, annot_df, todo, info_dic,
                 info_keys, vcf>>

----------------------------------------------------------------------------
(* _get_main_vcf_cols *)

\* The column that plays a role: the configured one, or the role's own name
\* when the role is unmapped.
MainCol(role) ==
  IF config.VCF_COLUMNS[role] = <<>> THEN <<role>> ELSE config.VCF_COLUMNS[role]

RECURSIVE WithDefaultCols(_, _)
\* self.input_df[col] = "." for every unmapped role
WithDefaultCols(df, roles) ==
  IF roles = <<>> THEN df
  ELSE WithDefaultCols(
         IF config.VCF_COLUMNS[Head(roles)] = <<>>
         THEN SetColumn(df, <<Head(roles)>>, DOT) ELSE df,
         Tail(roles))

GetMainVcfCols ==
  /\ pc = "maincols"
  /\ input_df' = WithDefaultCols(input_df, MainRoles)
  /\ main_vcf_cols' = [i \in 1..Len(MainRoles) |-> MainCol(MainRoles[i])]
  /\ pc' = "annot"
  /\ UNCHANGED <<config, tsv, err, sample_list, annot_df, todo, info_dic,
                 info_keys, vcf>>

----------------------------------------------------------------------------
(* _build_input_annot_df *)

\* columns_to_drop, in the order the loop tries them
ColumnsToDrop ==
  sample_list \o main_vcf_cols
  \o <<config.VCF_COLUMNS["SAMPLE"], config.VCF_COLUMNS["FORMAT"], config.INFO["INFO"]>>

\* The loop assigns df = self.input_df.drop([col]) for each column in turn and
\* skips a column the table lacks: df ends as the table without the last
\* listed column it has.  Unbound when the table has none of them.
DroppedColumns(df, cols) ==
  LET has == {i \in 1..Len(cols) : HasColumn(df, cols[i])}
  IN IF has = {} THEN {}
     ELSE {cols[CHOOSE i \in has : \A j \in has : j <= i]}

\* A cell left as it is.
ReplaceNothing(value) == value

\* df.replace(";", ",", regex=True) of one cell
ReplaceSemicolon(value) == Replace(value, ";", ",")

\* df.replace(";", ",", regex=True)
ReplaceSemicolons(df) ==
  [columns |-> df.columns,
   rows |-> [i \in 1..Len(df.rows) |->
              [idx |-> df.rows[i].idx,
               cells |-> [c \in DOMAIN df.rows[i].cells |->
                           ReplaceSemicolon(df.rows[i].cells[c])]]]]

InputAnnotDf(df) ==
  ReplaceSemicolons(
    KeepColumns(df, SelectSeq(df.columns,
                  LAMBDA c : c \notin DroppedColumns(df, ColumnsToDrop))))

BuildInputAnnotDf ==
  /\ pc = "annot"
  /\ IF DroppedColumns(input_df, ColumnsToDrop) = {}
     THEN /\ Raise("UnboundLocalError")
          /\ UNCHANGED <<annot_df, todo>>
     ELSE IF \/ config.INFO["SV_type"] = <<>>
             \/ ~HasColumn(InputAnnotDf(input_df), config.INFO["SV_type"])
     THEN /\ Raise("SVTypeRequired")
          /\ UNCHANGED <<annot_df, todo>>
     ELSE /\ annot_df' = InputAnnotDf(input_df)
          /\ todo' = GroupKeysSorted(InputAnnotDf(input_df), config.INFO["AnnotSV_ID"])
          /\ pc' = "merge"
          /\ UNCHANGED err
  /\ UNCHANGED <<config, tsv, input_df, sample_list, main_vcf_cols, info_dic,
                 info_keys, vcf>>

----------------------------------------------------------------------------
(* _merge_full_and_split *)

\* A dict is the list of its items in insertion order.
DictKeys(d) == {d[i].k : i \in 1..Len(d)}
DictGet(d, key) == d[CHOOSE i \in 1..Len(d) : d[i].k = key].v
Merged(annots) == [error |-> "none", warning |-> FALSE, annots |-> annots]
MergeError(kind) == [error |-> kind, warning |-> FALSE, annots |-> <<>>]
\* log.warning(...) ; return {}
MergedEmpty == [error |-> "none", warning |-> TRUE, annots |-> <<>>]

\* "Do not keep 'base vcf col' in info field"
WithoutBaseVcfCols(df) ==
  KeepColumns(df, SelectSeq(df.columns, LAMBDA c : c \notin BaseVcfCols))

\* The test off by one: two full rows pass.
TooManyFullOffByOne(full) == Len(full.rows) > 2

\* len(dfs["full"].index) > 1
TooManyFull(full) == Len(full.rows) > 1

\* dfs["full"].loc[df.index[0], ann] looks the full row up under the label of
\* the first row of the group: a KeyError unless that row is the full row.
FullRowFound(df, full) == \E i \in 1..Len(full.rows) : full.rows[i].idx = df.rows[1].idx

FullRow(df, full) ==
  full.rows[CHOOSE i \in 1..Len(full.rows) : full.rows[i].idx = df.rows[1].idx]

\* The full value taken as it is, not normalised.
FullValueUnnormalised(df, full, ann) == FullRow(df, full).cells[ann]

\* annots[ann] = remove_decimal_or_strip(dfs["full"].loc[df.index[0], ann])
FullValue(df, full, ann) == remove_decimal_or_strip(FullRow(df, full).cells[ann])

\* A seed of "" instead of ".".
SeedEmpty(ann) == <<>>

\* annots[ann] = "." for a group without a full row
SeedWithoutFull(ann) == DOT

\* The values of one column of the split rows, normalised, in row order.
Transform(split, ann) ==
  [i \in 1..Len(split.rows) |-> remove_decimal_or_strip(split.rows[i].cells[ann])]

\* values = [annots[ann]]; values.extend(transform); "|".join(values)
JoinValues(first, transform) == Join(<<first>> \o transform, <<"|">>)

\* The value of one column once the split rows are dealt with.
SplitValue(seed, split, ann) ==
  IF ann = config.INFO["Annotation_mode"] THEN config.GENERAL.mode
  ELSE JoinValues(seed, Transform(split, ann))

\* A tag the loop over groupby(Annotation_mode) rejects.
BadTypemode(typemode) == typemode \notin {FULL, SPLIT}

_merge_full_and_split(df_variant) ==
  IF config.GENERAL.mode # FULL_AND_SPLIT THEN MergeError("UnsupportedMode")
  ELSE
    LET df == WithoutBaseVcfCols(df_variant)
        mode_col == config.INFO["Annotation_mode"]
    IN IF ~HasColumn(df, mode_col) THEN MergeError("KeyError")
       ELSE
         LET typemodes == GroupKeysSorted(df, mode_col)
             full == RowsWith(df, mode_col, FULL)
             split == RowsWith(df, mode_col, SPLIT)
             has_full == full.rows # <<>>
             has_split == split.rows # <<>>
             cols == df.columns
             seeded == [i \in 1..Len(cols) |->
                          [k |-> cols[i],
                           v |-> IF has_full THEN FullValue(df, full, cols[i])
                                 ELSE SeedWithoutFull(cols[i])]]
             joined == [i \in 1..Len(cols) |->
                          [k |-> cols[i],
                           v |-> SplitValue(seeded[i].v, split, cols[i])]]
         IN IF \E i \in 1..Len(typemodes) : BadTypemode(typemodes[i])
            THEN MergeError("AnnotationTypeError")
            ELSE IF ~has_full /\ ~has_split THEN MergedEmpty
            ELSE IF has_full /\ TooManyFull(full) THEN MergeError("MultipleFull")
            ELSE IF has_full /\ ~FullRowFound(df, full) THEN MergeError("KeyError")
            ELSE IF ~has_split THEN Merged(seeded)
            ELSE Merged(joined)

----------------------------------------------------------------------------
(* _build_info_dic and the collection of info_keys *)

\* The rows groupby(id_col) hands over for one group.
GroupOf(df, id) == RowsWith(df, config.INFO["AnnotSV_ID"], id)

\* One turn of the loop of _build_info_dic.
MergeGroup ==
  /\ pc = "merge"
  /\ todo # <<>>
  /\ LET variant_id == Head(todo)
         merged == _merge_full_and_split(GroupOf(annot_df, variant_id))
     IN IF merged.error # "none"
        THEN /\ Raise(merged.error)
             /\ UNCHANGED <<todo, info_dic>>
        ELSE /\ info_dic' = [g \in DOMAIN info_dic \cup {variant_id} |->
                               IF g = variant_id THEN merged.annots ELSE info_dic[g]]
             /\ todo' = Tail(todo)
             /\ UNCHANGED <<pc, err>>
  /\ UNCHANGED <<config, tsv, input_df, sample_list, main_vcf_cols, annot_df,
                 info_keys, vcf>>

\* The union of the keys of every merged annotation.
InfoKeys(dic) == UNION {DictKeys(dic[g]) : g \in DOMAIN dic}

\* _build_info_dic returns (its dataframe goes out of scope) and convert
\* collects info_keys.
CollectInfoKeys ==
  /\ pc = "merge"
  /\ todo = <<>>
  /\ info_keys' = InfoKeys(info_dic)
  /\ annot_df' = EmptyDf
  /\ pc' = "open"
  /\ UNCHANGED <<config, tsv, err, input_df, sample_list, main_vcf_cols, todo,
                 info_dic, vcf>>

----------------------------------------------------------------------------
(* convert: the output file *)

\* The elements of a set of strings as a sorted list.
SortedSeq(set) == SortStrings(CHOOSE o \in Orderings(set) : TRUE)

\* What commons.create_vcf_header(tsv, config, sample_list) is given: the path,
\* the configuration and the samples, not info_keys.  Its INFO meta-lines are
\* those of the keys the configuration describes.
create_vcf_header(cfg, samples) ==
  LET keys == SortedSeq(cfg.COLUMNS_DESCRIPTION.INFO)
  IN <<[section |-> "fileformat", id |-> <<>>, columns |-> <<>>]>>
     \o [i \in 1..Len(keys) |-> [section |-> "INFO", id |-> keys[i], columns |-> <<>>]]
     \o <<[section |-> "title", id |-> <<>>,
           columns |-> <<<<"#CHROM">>, <<"POS">>, <<"ID">>, <<"REF">>, <<"ALT">>,
                         <<"QUAL">>, <<"FILTER">>, <<"INFO">>, <<"FORMAT">>>> \o samples]>>

\* The table left in the order of the load-time sort.
NotNatsorted(df) == df

\* self.input_df.iloc[index_natsorted(self.input_df[#CHROM])]
Natsorted(df) ==
  [columns |-> df.columns,
   rows |-> StableSort(df.rows,
              [i, j \in 1..Len(df.rows) |->
                 NatLess(df.rows[i].cells[config.VCF_COLUMNS["#CHROM"]],
                         df.rows[j].cells[config.VCF_COLUMNS["#CHROM"]])])]

\* The groups the emission loop visits, in its order.
EmitOrder(df) == GroupKeysUnsorted(df, config.INFO["AnnotSV_ID"])

\* with open(output_path, "w"): the header is written, the table is put in
\* natural chromosome order and the loop over the groups starts.
OpenVcf ==
  /\ pc = "open"
  /\ vcf' = [exists |-> TRUE, closed |-> FALSE,
             header |-> create_vcf_header(config, sample_list), lines |-> <<>>]
  /\ input_df' = Natsorted(input_df)
  /\ todo' = EmitOrder(Natsorted(input_df))
  /\ pc' = "emit"
  /\ UNCHANGED <<config, tsv, err, sample_list, main_vcf_cols, annot_df, info_dic,
                 info_keys>>

TAB == <<"\t">>

\* is_helper_func(info_col) for some value of config["VCF_COLUMNS"]["INFO"]
InfoHelperRequested == config.INFO_HELPERS # {}

\* The group's first row with the columns the loop fills in: FILTER is PASS
\* when the role is unmapped.
FirstRow(df_variant) ==
  LET filled == IF config.VCF_COLUMNS["FILTER"] = <<>>
                THEN SetColumn(df_variant, <<"FILTER">>, <<"PASS">>)
                ELSE df_variant
  IN filled.rows[1]

\* "\t".join(df_variant[self.main_vcf_cols].iloc[0].to_list())
MainCols(row) == Join([i \in 1..Len(main_vcf_cols) |-> row.cells[main_vcf_cols[i]]], TAB)

\* ";".join([k + "=" + v for k, v in info_dic[variant_id].items()])
InfoField(annots) ==
  Join([i \in 1..Len(annots) |-> annots[i].k \o <<"=">> \o annots[i].v], <<";">>)

\* A lookup that ignores which group is being written.
InfoLookupAny(dic, variant_id) == dic[CHOOSE g \in DOMAIN dic : TRUE]

\* info_dic[variant_id]
InfoLookup(dic, variant_id) == dic[variant_id]

\* The columns the sample part of a line reads when FORMAT is mapped.
SampleColumns == <<config.VCF_COLUMNS["FORMAT"]>> \o sample_list

\* The test that decides whether the sample columns are read.
FormatIsMapped == config.VCF_COLUMNS["FORMAT"] # <<>>

SampleCols(row) ==
  IF FormatIsMapped
  THEN Join([i \in 1..Len(SampleColumns) |-> row.cells[SampleColumns[i]]], TAB)
  ELSE <<"GT">> \o TAB \o config.GENERAL.default_genotype

\* A line of the file: the group it was written for, the text written and
\* whether its newline was written.
Line(group, text, ended) == [group |-> group, text |-> text, ended |-> ended]

\* An exception handler that removes the file it was writing.
RaiseAndRemove(kind, lines) ==
  /\ Raise(kind)
  /\ vcf' = NoFile
  /\ UNCHANGED todo

\* An exception inside the with block: the file is closed as it is.
RaiseWhileWriting(kind, lines) ==
  /\ Raise(kind)
  /\ vcf' = [vcf EXCEPT !.closed = TRUE, !.lines = lines]
  /\ UNCHANGED todo

\* One turn of the loop over the groups.
WriteVariant ==
  /\ pc = "emit"
  /\ todo # <<>>
  /\ LET variant_id == Head(todo)
         row == FirstRow(GroupOf(input_df, variant_id))
         main == MainCols(row) \o TAB
     IN IF InfoHelperRequested
        THEN RaiseWhileWriting("UnsupportedFeature", vcf.lines)
        ELSE IF variant_id \notin DOMAIN info_dic
        THEN RaiseWhileWriting("KeyError", Append(vcf.lines, Line(variant_id, main, FALSE)))
        ELSE
          LET info == InfoField(InfoLookup(info_dic, variant_id)) \o TAB
          IN IF FormatIsMapped /\ ~(SeqToSet(SampleColumns) \subseteq DOMAIN row.cells)
             THEN RaiseWhileWriting("KeyError",
                    Append(vcf.lines, Line(variant_id, main \o info, FALSE)))
             ELSE /\ vcf' = [vcf EXCEPT !.lines =
                               Append(@, Line(variant_id, main \o info \o SampleCols(row), TRUE))]
                  /\ todo' = Tail(todo)
                  /\ UNCHANGED <<pc, err>>
  /\ UNCHANGED <<config, tsv, input_df, sample_list, main_vcf_cols, annot_df,
                 info_dic, info_keys>>

\* The loop is over: the with block closes the file and convert returns.
CloseVcf ==
  /\ pc = "emit"
  /\ todo = <<>>
  /\ vcf' = [vcf EXCEPT !.closed = TRUE]
  /\ pc' = "done"
  /\ UNCHANGED <<config, tsv, err, input_df, sample_list, main_vcf_cols, annot_df,
                 todo, info_dic, info_keys>>

Next ==
  \/ BuildInputDataframe
  \/ GetSampleList
  \/ GetMainVcfCols
  \/ BuildInputAnnotDf
  \/ MergeGroup
  \/ CollectInfoKeys
  \/ OpenVcf
  \/ WriteVariant
  \/ CloseVcf

Spec == Init /\ [][Next]_vars

----------------------------------------------------------------------------
(* What the claims speak about *)

\* The merge loop is running or has just ended, by its end or by an exception:
\* the annotation dataframe is the one the groups were taken from.
MergePhase == pc = "merge" \/ (pc = "error" /\ err.at = "merge")

SupportedMode == config.GENERAL.mode = FULL_AND_SPLIT

ModeCol == config.INFO["Annotation_mode"]

\* The group identifiers of the annotation dataframe.
AnnotGroups == SeqToSet(ColumnValues(annot_df, config.INFO["AnnotSV_ID"]))

\* The rows of a group as the merge sees them.
MergeRows(g) == WithoutBaseVcfCols(GroupOf(annot_df, g))

Tagged(g, tag) == RowsWith(MergeRows(g), ModeCol, tag).rows

NFull(g) == Len(Tagged(g, FULL))
NSplit(g) == Len(Tagged(g, SPLIT))
NOther(g) == Len(MergeRows(g).rows) - NFull(g) - NSplit(g)

\* The merge of group g raised.
MergeFailed(g) == pc = "error" /\ err.at = "merge" /\ todo # <<>> /\ Head(todo) = g

\* The merge of group g was run: it returned or it raised.
MergeActedOn(g) == g \in DOMAIN info_dic \/ MergeFailed(g)

\* The fields of a group other than the discriminator.
PlainFields(g) == SeqToSet(MergeRows(g).columns) \ {ModeCol}

\* The normalised values of field f on the rows of group g tagged tag.
TaggedValues(g, tag, f) ==
  [i \in 1..Len(Tagged(g, tag)) |-> remove_decimal_or_strip(Tagged(g, tag)[i].cells[f])]

\* The number of '|'-separated elements of a merged value.
Elements(value) == Len(SplitOn(value, "|", <<>>))

\* C2: a group with one full row and N >= 1 split rows is merged, and every
\* field but the discriminator holds the full value followed by the N split
\* values in row order, '|'-joined, N+1 elements, nothing deduplicated; the
\* discriminator holds the mode label.
C2_FullThenSplits ==
  (MergePhase /\ SupportedMode /\ HasColumn(annot_df, ModeCol)) =>
    \A g \in AnnotGroups :
      (MergeActedOn(g) /\ NFull(g) = 1 /\ NSplit(g) >= 1 /\ NOther(g) = 0) =>
        /\ g \in DOMAIN info_dic
        /\ DictKeys(info_dic[g]) = SeqToSet(MergeRows(g).columns)
        /\ DictGet(info_dic[g], ModeCol) = FULL_AND_SPLIT
        /\ \A f \in PlainFields(g) :
             /\ DictGet(info_dic[g], f) =
                  Join(TaggedValues(g, FULL, f) \o TaggedValues(g, SPLIT, f), <<"|">>)
             /\ Elements(DictGet(info_dic[g], f)) = NSplit(g) + 1

\* C3: a group of exactly one full row and no split row is merged into the
\* full row's normalised values, field by field, the discriminator included,
\* and no '|' is added.
C3_FullOnly ==
  (MergePhase /\ SupportedMode /\ HasColumn(annot_df, ModeCol)) =>
    \A g \in AnnotGroups :
      (MergeActedOn(g) /\ NFull(g) = 1 /\ NSplit(g) = 0 /\ NOther(g) = 0) =>
        /\ g \in DOMAIN info_dic
        /\ DictKeys(info_dic[g]) = SeqToSet(MergeRows(g).columns)
        /\ \A f \in SeqToSet(MergeRows(g).columns) :
             /\ DictGet(info_dic[g], f) =
                  remove_decimal_or_strip(MergeRows(g).rows[1].cells[f])
             /\ Elements(DictGet(info_dic[g], f)) = Elements(MergeRows(g).rows[1].cells[f])

\* A merged group of one full row whose annotation needs normalising.
C3_Witness ==
  /\ MergePhase /\ SupportedMode
  /\ \E g \in AnnotGroups :
       /\ g \in DOMAIN info_dic
       /\ NFull(g) = 1 /\ NSplit(g) = 0 /\ NOther(g) = 0
       /\ MergeRows(g).rows[1].cells[<<"Gene">>] = <<"1", ".", "0">>
       /\ DictGet(info_dic[g], <<"Gene">>) = <<"1">>
       /\ DictGet(info_dic[g], ModeCol) = FULL

\* C4: a group without full row and with N >= 1 split rows is merged without
\* error; every field but the discriminator is '.' followed by the N split
\* values in row order, '|'-joined, N+1 elements.
C4_SplitOnly ==
  (MergePhase /\ SupportedMode /\ HasColumn(annot_df, ModeCol)) =>
    \A g \in AnnotGroups :
      (MergeActedOn(g) /\ NFull(g) = 0 /\ NSplit(g) >= 1 /\ NOther(g) = 0) =>
        /\ g \in DOMAIN info_dic
        /\ DictKeys(info_dic[g]) = SeqToSet(MergeRows(g).columns)
        /\ DictGet(info_dic[g], ModeCol) = FULL_AND_SPLIT
        /\ \A f \in PlainFields(g) :
             /\ DictGet(info_dic[g], f) =
                  Join(<<DOT>> \o TaggedValues(g, SPLIT, f), <<"|">>)
             /\ Elements(DictGet(info_dic[g], f)) = NSplit(g) + 1
             /\ SplitOn(DictGet(info_dic[g], f), "|", <<>>)[1] = DOT

\* A merged group of two split rows with different annotations and no full row.
C4_Witness ==
  /\ MergePhase /\ SupportedMode
  /\ \E g \in AnnotGroups :
       /\ g \in DOMAIN info_dic
       /\ NFull(g) = 0 /\ NSplit(g) = 2 /\ NOther(g) = 0
       /\ DictGet(info_dic[g], <<"Gene">>) = <<".", "|", "g", "|", "1">>

\* C5: a group with no row tagged full and no row tagged split (the
\* discriminator column is absent, or its cells are missing and read as '.')
\* is merged into the empty annotation, and the conversion goes on.
C5_NoTagIsEmpty ==
  (MergePhase /\ SupportedMode) =>
    \A g \in AnnotGroups :
      (/\ MergeActedOn(g)
       /\ \/ ~HasColumn(annot_df, ModeCol)
          \/ \A i \in 1..Len(MergeRows(g).rows) :
               MergeRows(g).rows[i].cells[ModeCol] = DOT) =>
        /\ g \in DOMAIN info_dic
        /\ info_dic[g] = <<>>

\* A group the validation of the tags rejects.
BadGroup(g) == NFull(g) > 1 \/ NOther(g) > 0

ValidationErrors == {"AnnotationTypeError", "MultipleFull"}

\* C6: merging a group with more than one full row, or with a tag that is
\* neither full nor split, raises the validation error and leaves the group
\* without merged annotation, so the conversion never completes; merging any
\* other group never raises it.
C6_Validation ==
  /\ (MergePhase /\ SupportedMode /\ HasColumn(annot_df, ModeCol)) =>
       \A g \in AnnotGroups :
         MergeActedOn(g) =>
           /\ BadGroup(g) <=> (MergeFailed(g) /\ err.kind \in ValidationErrors)
           /\ BadGroup(g) => g \notin DOMAIN info_dic
  /\ (pc \in {"open", "emit", "done"} /\ HasColumn(tsv, ModeCol)) =>
       \A g \in SeqToSet(ColumnValues(tsv, config.INFO["AnnotSV_ID"])) :
         LET tags == ColumnValues(RowsWith(tsv, config.INFO["AnnotSV_ID"], g), ModeCol)
         IN /\ \A i \in 1..Len(tags) : tags[i] \in {FULL, SPLIT}
            /\ Cardinality({i \in 1..Len(tags) : tags[i] = FULL}) <= 1

\* The merge of a group with two full rows and a split row raised.
C6_Witness ==
  /\ SupportedMode
  /\ \E g \in AnnotGroups :
       /\ MergeFailed(g) /\ err.kind = "MultipleFull"
       /\ NFull(g) = 2 /\ NSplit(g) = 1

----------------------------------------------------------------------------
(* The output file, read back *)

\* The n-th tab-separated field of a line.
Field(text, n) == SplitOn(text, "\t", <<>>)[n]

NFields(text) == Len(SplitOn(text, "\t", <<>>))

\* The keys of the key=value items of an INFO field.
InfoFieldKeys(info) ==
  IF info = <<>> THEN {}
  ELSE {SplitOn(item, "=", <<>>)[1] : item \in SeqToSet(SplitOn(info, ";", <<>>))}

\* The keys the INFO meta-lines of the header declare.
HeaderInfoIds ==
  {vcf.header[i].id : i \in {j \in 1..Len(vcf.header) : vcf.header[j].section = "INFO"}}

\* The table as convert holds it before the merge, recomputed from the file.
LoadedDf == WithDefaultCols(FillNa(ResetIndex(SortValues(tsv))), MainRoles)

\* The group identifiers of the input table.
TableGroups == SeqToSet(ColumnValues(LoadedDf, config.INFO["AnnotSV_ID"]))

\* The INFO field the annotation rows of group id merge into.
GroupInfo(id) ==
  InfoField(_merge_full_and_split(
              GroupOf(InputAnnotDf(LoadedDf), ReplaceSemicolon(id))).annots)

LinesOf(id) == {i \in 1..Len(vcf.lines) : vcf.lines[i].group = id}

\* C1: when convert completes, the file holds exactly one line per group
\* identifier of the table, on the chromosome and position of a row of that
\* group, and its INFO field is the merge of that group's annotation rows.
C1_OneLinePerGroup ==
  pc = "done" =>
    /\ \A id \in TableGroups : Cardinality(LinesOf(id)) = 1
    /\ \A i \in 1..Len(vcf.lines) :
         LET line == vcf.lines[i]
         IN /\ line.ended
            /\ line.group \in TableGroups
            /\ \E r \in SeqToSet(GroupOf(LoadedDf, line.group).rows) :
                 /\ r.cells[config.VCF_COLUMNS["#CHROM"]] = Field(line.text, 1)
                 /\ r.cells[config.VCF_COLUMNS["POS"]] = Field(line.text, 2)
            /\ Field(line.text, 8) = GroupInfo(line.group)

\* A completed conversion of three rows in two groups.
C1_Witness ==
  /\ pc = "done"
  /\ Len(tsv.rows) = 3
  /\ Cardinality(TableGroups) = 2
  /\ Len(vcf.lines) = 2

\* C7: the header declares an INFO meta-line for every key of the union of the
\* keys of all merged annotations, so every INFO key of a written record is
\* declared by the header.
C7_HeaderDeclaresInfoKeys ==
  vcf.exists =>
    /\ InfoKeys(info_dic) \subseteq HeaderInfoIds
    /\ \A i \in 1..Len(vcf.lines) :
         NFields(vcf.lines[i].text) >= 8 =>
           InfoFieldKeys(Field(vcf.lines[i].text, 8)) \subseteq HeaderInfoIds

\* C8: the record lines are in natural chromosome order: no line is on a
\* chromosome naturally smaller than that of a line before it.
C8_NaturalOrder ==
  \A i, j \in 1..Len(vcf.lines) :
    i < j => ~NatLess(Field(vcf.lines[j].text, 1), Field(vcf.lines[i].text, 1))

\* chr2 is written before chr10 although the load-time sort put chr10 first.
C8_Witness ==
  /\ pc = "done"
  /\ Len(vcf.lines) = 2
  /\ Field(vcf.lines[1].text, 1) = <<"chr", "2">>
  /\ Field(vcf.lines[2].text, 1) = <<"chr", "1", "0">>
  /\ LoadedDf.rows[1].cells[config.VCF_COLUMNS["#CHROM"]] = <<"chr", "1", "0">>

\* C9: when FORMAT is mapped to a column and a sample of the samples column
\* has no column of its own, convert ends with the schema-mismatch error of
\* the sample resolution, before anything is merged or written.
C9_SamplesChecked ==
  (/\ pc \notin {"load", "samples"}
   /\ FormatIsMapped
   /\ ~(SampleSet(LoadedDf) \subseteq SeqToSet(tsv.columns))) =>
    /\ pc = "error"
    /\ err = [kind |-> "SchemaMismatch", at |-> "samples"]

\* The phases of convert before open(output_path, "w").
BeforeOpen == {"load", "samples", "maincols", "annot", "merge"}

\* The file is whole: header, one finished line per group, closed.
CompleteFile ==
  /\ vcf.exists /\ vcf.closed
  /\ vcf.header # <<>>
  /\ \A i \in 1..Len(vcf.lines) : vcf.lines[i].ended
  /\ \A id \in TableGroups : Cardinality(LinesOf(id)) = 1
  /\ Len(vcf.lines) = Cardinality(TableGroups)

\* C10: a run ends with a complete file or with an error and no file.
C10_CompleteOrNothing ==
  /\ pc = "done" => CompleteFile
  /\ pc = "error" => ~vcf.exists

\* C10 as amended: a run ends with a complete file, or with an error raised
\* before the file is opened and no file, or with an error raised inside the
\* loop that writes the records (a helper function requested for an INFO role,
\* a KeyError) and a closed file that holds the header and fewer finished
\* lines than there are groups.
C10_Amended ==
  /\ pc = "done" => CompleteFile
  /\ (pc = "error" /\ err.at \in BeforeOpen) => vcf = NoFile
  /\ (pc = "error" /\ err.kind \in {"SchemaMismatch", "SVTypeRequired", "UnsupportedMode",
                                    "AnnotationTypeError", "MultipleFull"}) =>
       err.at \in BeforeOpen
  /\ (pc = "error" /\ err.at \notin BeforeOpen) =>
       /\ err.at = "emit"
       /\ err.kind \in {"UnsupportedFeature", "KeyError"}
       /\ vcf.exists /\ vcf.closed /\ vcf.header # <<>>
       /\ Cardinality({i \in 1..Len(vcf.lines) : vcf.lines[i].ended})
            < Cardinality(TableGroups)
       /\ \A i \in 1..Len(vcf.lines) : i < Len(vcf.lines) => vcf.lines[i].ended

\* A helper function on an INFO role ends the run with the header on disk.
C10_Witness ==
  /\ pc = "error"
  /\ err = [kind |-> "UnsupportedFeature", at |-> "emit"]
  /\ vcf.exists /\ vcf.header # <<>> /\ vcf.lines = <<>>

----------------------------------------------------------------------------
(* Annotation-only rows *)

\* The columns that are not annotations: the main VCF columns, the FORMAT
\* column, the samples column, the per-sample columns and the raw INFO column.
NonAnnotationColumns ==
  (SeqToSet(main_vcf_cols) \cup SeqToSet(sample_list)
   \cup {config.VCF_COLUMNS["SAMPLE"], config.VCF_COLUMNS["FORMAT"], config.INFO["INFO"]})
  \ {<<>>}

\* C11: no MergedAnnotation has a key that is a main VCF column, the FORMAT
\* column, the samples column, a per-sample column or the raw INFO column.
C11_AnnotationOnly ==
  \A g \in DOMAIN info_dic :
    DictKeys(info_dic[g]) \cap NonAnnotationColumns = {}

----------------------------------------------------------------------------
(* Position of the full row *)

\* The rows of a group with the rows tagged full moved to the front, the other
\* rows kept in their order.
FullFirst(df) ==
  [columns |-> df.columns,
   rows |-> SelectSeq(df.rows, LAMBDA r : r.cells[ModeCol] = FULL)
            \o SelectSeq(df.rows, LAMBDA r : r.cells[ModeCol] # FULL)]

\* Whether the full row of a group comes after another row of the group.
FullRowNotFirst(g) == MergeRows(g).rows[1].cells[ModeCol] # FULL

\* C12: every group with exactly one full row (and otherwise split rows) is
\* merged, wherever the full row sits, into the MergedAnnotation that the same
\* rows give when the full row comes first.
C12_FullRowAnywhere ==
  (MergePhase /\ SupportedMode /\ HasColumn(annot_df, ModeCol)) =>
    \A g \in AnnotGroups :
      (MergeActedOn(g) /\ NFull(g) = 1 /\ NOther(g) = 0) =>
        /\ g \in DOMAIN info_dic
        /\ info_dic[g] = _merge_full_and_split(FullFirst(GroupOf(annot_df, g))).annots

\* The same statement for the groups whose full row is the first row; it is
\* C12_FullRowAnywhere without the groups whose full row comes later.
C12_FullRowFirstCase ==
  (MergePhase /\ SupportedMode /\ HasColumn(annot_df, ModeCol)) =>
    \A g \in AnnotGroups :
      (MergeActedOn(g) /\ NFull(g) = 1 /\ NOther(g) = 0 /\ ~FullRowNotFirst(g)) =>
        /\ g \in DOMAIN info_dic
        /\ info_dic[g] = _merge_full_and_split(FullFirst(GroupOf(annot_df, g))).annots

\* Every group with one full row that is not its first row fails with KeyError.
C12_LaterFullRowFails ==
  (MergePhase /\ SupportedMode /\ HasColumn(annot_df, ModeCol)) =>
    \A g \in AnnotGroups :
      (MergeActedOn(g) /\ NFull(g) = 1 /\ NOther(g) = 0 /\ FullRowNotFirst(g)) =>
        /\ MergeFailed(g)
        /\ err.kind = "KeyError"

----------------------------------------------------------------------------
(* ';' in annotations *)

\* The key=value items a reader of the file gets from an INFO field.
InfoItems(info) == SplitOn(info, ";", <<>>)

\* The lines whose INFO field has been written.
LinesWithInfo == {i \in 1..Len(vcf.lines) : NFields(vcf.lines[i].text) > 8}

\* The INFO field of the n-th line and the MergedAnnotation of its group.
RecordInfo(n) == Field(vcf.lines[n].text, 8)
RecordAnnots(n) == info_dic[vcf.lines[n].group]

\* C13: no value of a MergedAnnotation holds a ';', and the INFO field of
\* every record, split on ';', is one key=value item per key of the
\* MergedAnnotation of its group, in the order of the keys.
C13_NoSemicolonInValues ==
  /\ \A g \in DOMAIN info_dic :
       \A i \in 1..Len(info_dic[g]) : ~Contains(info_dic[g][i].v, ";")
  /\ \A n \in LinesWithInfo :
       /\ vcf.lines[n].group \in DOMAIN info_dic
       /\ Len(InfoItems(RecordInfo(n))) = Len(RecordAnnots(n))
       /\ \A j \in 1..Len(RecordAnnots(n)) :
            InfoItems(RecordInfo(n))[j] =
              RecordAnnots(n)[j].k \o <<"=">> \o RecordAnnots(n)[j].v

\* A finished file for a table whose Gene cells hold ';': the merged Gene
\* value holds ',' in their place, and the record has one item per key.
C13_Witness ==
  /\ pc = "done"
  /\ \E i \in 1..Len(tsv.rows) : tsv.rows[i].cells[<<"Gene">>] = <<"g", ";", "x">>
  /\ \E n \in LinesWithInfo :
       /\ vcf.lines[n].ended
       /\ Len(RecordAnnots(n)) > 1
       /\ Len(InfoItems(RecordInfo(n))) = Len(RecordAnnots(n))
       /\ \E j \in 1..Len(RecordAnnots(n)) :
            /\ RecordAnnots(n)[j].k = <<"Gene">>
            /\ Contains(RecordAnnots(n)[j].v, ",")

====
